---- MODULE Spec2Model ----
(***************************************************************************)
(* StackMixin of dc.js (src/src/base/stack-mixin.js): the layer registry   *)
(* (StackedDataAdaptor), the hidden-stacks map, the data callback that     *)
(* stacks the visible layers, the axis extents and the legend.             *)
(***************************************************************************)
EXTENDS Integers, Sequences, FiniteSets, TLC

\* Largest number of layers the registry holds in the model.
MaxStack == 2

(***************************************************************************)
(* JavaScript values that are not plain numbers or strings of the model.   *)
(***************************************************************************)
Undefined == [type |-> "undefined"]
NaN == [type |-> "NaN"]
Num(n) == [type |-> "number", n |-> n]
Str(s) == [type |-> "string", s |-> s]
Fn(f) == [type |-> "function", f |-> f]
Bool(b) == [type |-> "boolean", b |-> b]
Array(items) == [type |-> "array", items |-> items]

\* The thrown value of a property read on undefined.
TypeError == [threw |-> TRUE, error |-> "TypeError"]
Return(v) == [threw |-> FALSE, value |-> v]

(***************************************************************************)
(* Collaborators: the crossfilter groups, the accessors, the x scale.      *)
(***************************************************************************)
Groups == {"gA", "gB"}

\* group.all(): the rows of a group, in key order.
all(g) ==
    IF g = "gA"
    THEN << [key |-> 1, value |-> 10], [key |-> 2, value |-> 20] >>
    ELSE << [key |-> 1, value |-> 5], [key |-> 2, value |-> -15],
            [key |-> 3, value |-> -4] >>

\* Calling an accessor function on a row.
Apply(f, d, i) ==
    CASE f = "key" -> d.key
      [] f = "value" -> d.value
      [] f = "double" -> 2 * d.value

keyAccessor == "key"
valueAccessor == "value"

\* What the coordinate grid reports when the chart asks: the x scale (or
\* undefined) with its domain, isOrdinal(), elasticX() and the paddings.
\* The grid is the chart's surroundings: each call that reads it is given
\* one of these, recorded as the call's argument.
Grids ==
    { [x |-> Undefined, isOrdinal |-> FALSE, elasticX |-> FALSE,
       yAxisPadding |-> 0, xAxisPadding |-> 0],
      [x |-> [type |-> "scale", domain |-> <<1, 2>>], isOrdinal |-> TRUE,
       elasticX |-> FALSE, yAxisPadding |-> 1, xAxisPadding |-> 0],
      [x |-> [type |-> "scale", domain |-> <<1, 2>>], isOrdinal |-> FALSE,
       elasticX |-> TRUE, yAxisPadding |-> 0, xAxisPadding |-> 1],
      [x |-> [type |-> "scale", domain |-> <<1, 2>>], isOrdinal |-> FALSE,
       elasticX |-> FALSE, yAxisPadding |-> 1, xAxisPadding |-> 1] }

\* Arguments of chart.stack(group, name, accessor).
StackArgs ==
    { [group |-> "gA", name |-> Str("1"), accessor |-> Undefined],
      [group |-> "gA", name |-> Fn("double"), accessor |-> Undefined],
      [group |-> "gB", name |-> Undefined, accessor |-> Fn("double")] }

\* Arguments of chart.group(g, n, f).
GroupArgs ==
    { [group |-> "gA", name |-> Str("a")],
      [group |-> "gB", name |-> Undefined] }

\* Names given to hideStack, showStack and legendToggle.
StackNames == {"1", "a"}

VARIABLES
    _stack,          \* StackedDataAdaptor._stack
    _hiddenStacks,   \* StackMixin._hiddenStacks
    _hidableStacks,  \* StackMixin._hidableStacks
    _evadeDomainFilter,
    lastCall,        \* the last method called, with its argument
    ret,             \* what that call returned or threw
    renderCalls,     \* renderGroup() invocations made by that call
    hiddenBefore     \* _hiddenStacks when that call began

vars == << _stack, _hiddenStacks, _hidableStacks, _evadeDomainFilter,
           lastCall, ret, renderCalls, hiddenBefore >>

(***************************************************************************)
(* StackedDataAdaptor                                                      *)
(***************************************************************************)
\* String(n) for a small non-negative integer.
String(n) ==
    IF n < 10
    THEN << "0", "1", "2", "3", "4", "5", "6", "7", "8", "9" >>[n + 1]
    ELSE "10+"

\* StackedDataAdaptor.stack(group, name, accessor) called with nargs arguments.
Adaptor_stack(stk, group, name, accessor, nargs) ==
    LET acc == IF nargs <= 2 THEN name ELSE accessor
        layer == [group |-> group,
                  name |-> IF name.type = "string" THEN name.s
                           ELSE String(Len(stk)),
                  accessor |-> IF acc.type = "function" THEN acc ELSE Undefined]
    IN Append(stk, layer)

clearStack == << >>

\* StackedDataAdaptor.data()
Adaptor_data(stk) ==
    [i \in 1..Len(stk) |->
        [name |-> stk[i].name, accessor |-> stk[i].accessor,
         rawData |-> all(stk[i].group)]]

(***************************************************************************)
(* StackMixin: preparing and stacking the visible layers                   *)
(***************************************************************************)
\* A _visibility that ignores the hidden map.
_visibility_all(hidden, l) == TRUE

\* _visibility(l): !this._hiddenStacks[l.name]
_visibility(hidden, l) == ~(l.name \in DOMAIN hidden /\ hidden[l.name])

\* A _domainFilter whose fixed numeric window leaves out its two ends.
_domainFilter_strict(grid, p) ==
    IF grid.x = Undefined THEN TRUE
    ELSE LET xDomain == grid.x.domain
         IN IF grid.isOrdinal THEN TRUE
            ELSE IF grid.elasticX THEN TRUE
            ELSE p.x > xDomain[1] /\ p.x < xDomain[Len(xDomain)]

\* _domainFilter()(p)
_domainFilter(grid, p) ==
    IF grid.x = Undefined THEN TRUE
    ELSE LET xDomain == grid.x.domain
         IN IF grid.isOrdinal THEN TRUE
            ELSE IF grid.elasticX THEN TRUE
            ELSE p.x >= xDomain[1] /\ p.x <= xDomain[Len(xDomain)]

\* _prepareValues(layer, layerIdx)
_prepareValues(layer, grid, evade) ==
    LET valAccessor == IF layer.accessor # Undefined THEN layer.accessor.f
                       ELSE valueAccessor
        allValues == [i \in 1..Len(layer.rawData) |->
                        [x |-> Apply(keyAccessor, layer.rawData[i], i),
                         y |-> Apply(valAccessor, layer.rawData[i], i),
                         data |-> layer.rawData[i],
                         name |-> layer.name]]
        domainValues == SelectSeq(allValues, LAMBDA p : _domainFilter(grid, p))
    IN layer @@ [domainValues |-> domainValues,
                 values |-> IF evade THEN allValues ELSE domainValues]

\* The column object of key index j: col[layer.name] = layer.values[j].y,
\* assigned layer by layer, so the last layer of a name is the one kept.
v4col(layers, j) ==
    [nm \in {layers[i].name : i \in 1..Len(layers)} |->
        LET last == CHOOSE i \in 1..Len(layers) :
                       /\ layers[i].name = nm
                       /\ \A k \in 1..Len(layers) : layers[k].name = nm => k <= i
        IN layers[last].values[j].y]

\* d3.stack().keys(keys)(v4data) with the default order and offset: series i
\* at column j is [y0, y1], y0 the y1 of the series before it.
RECURSIVE stackLayout(_, _, _, _)
stackLayout(keys, v4data, i, j) ==
    LET v == v4data[j][keys[i]]
    IN IF i = 1 THEN << 0, v >>
       ELSE LET s0 == stackLayout(keys, v4data, i - 1, j)
            IN << s0[2], s0[2] + v >>

\* body(v), with v evaluated once.
With(v, body(_)) == CHOOSE r \in {body(x) : x \in {v}} : TRUE

\* v4result.forEach(...): y0 and y1 written on the first n points of layer i.
WriteBack(layers, keys, v4data, i) ==
    [j \in 1..Len(layers[i].values) |->
        IF j <= Len(v4data)
        THEN LET ys == stackLayout(keys, v4data, i, j)
             IN layers[i].values[j] @@ [y0 |-> ys[1], y1 |-> ys[2]]
        ELSE layers[i].values[j]]

\* The callback given to this.data(...) in the constructor, from
\* layers.forEach(_prepareValues) on. Reading layers[0].values of no layer,
\* or layer.values[i].y of a layer shorter than the first, throws. The
\* points of domainValues are points of values, so they carry the same y0
\* and y1.
Stacked(visible, evade, grid) ==
    IF Len(visible) = 0 THEN TypeError
    ELSE
      With([i \in 1..Len(visible) |-> _prepareValues(visible[i], grid, evade)],
           LAMBDA layers :
      IF \E i \in 1..Len(layers) : Len(layers[i].values) < Len(layers[1].values)
      THEN TypeError
      ELSE
        With([j \in 1..Len(layers[1].values) |-> v4col(layers, j)],
             LAMBDA v4data :
        With([i \in 1..Len(layers) |-> layers[i].name],
             LAMBDA keys :
        Return(Array([i \in 1..Len(layers) |->
            With(WriteBack(layers, keys, v4data, i),
                 LAMBDA values :
            [name |-> layers[i].name,
             accessor |-> layers[i].accessor,
             rawData |-> layers[i].rawData,
             values |-> values,
             domainValues |->
                SelectSeq(values, LAMBDA p : _domainFilter(grid, p))])])))))

\* The callback without its early return for an empty list of layers.
StackData_unguarded(stk, hidden, evade, grid) ==
    Stacked(SelectSeq(Adaptor_data(stk), LAMBDA l : _visibility(hidden, l)),
            evade, grid)

\* The callback given to this.data(...) in the constructor.
StackData(stk, hidden, evade, grid) ==
    With(SelectSeq(Adaptor_data(stk), LAMBDA l : _visibility(hidden, l)),
         LAMBDA visible :
    IF Len(visible) = 0 THEN Return(Array(<< >>))
    ELSE Stacked(visible, evade, grid))

(***************************************************************************)
(* Axis extents                                                            *)
(***************************************************************************)
\* d3.min / d3.max of JavaScript values: undefined and NaN are skipped, and
\* the result is undefined when no number is left.
Numbers(vs) == {vs[i].n : i \in {k \in 1..Len(vs) : vs[k].type = "number"}}
d3min(vs) ==
    IF Numbers(vs) = {} THEN Undefined
    ELSE Num(CHOOSE m \in Numbers(vs) : \A o \in Numbers(vs) : m <= o)
d3max(vs) ==
    IF Numbers(vs) = {} THEN Undefined
    ELSE Num(CHOOSE m \in Numbers(vs) : \A o \in Numbers(vs) : m >= o)

\* utils.subtract(l, r) and utils.add(l, r) for a numeric r.
subtract(l, r) == IF l.type = "number" THEN Num(l.n - r) ELSE NaN
add(l, r) == IF l.type = "number" THEN Num(l.n + r) ELSE NaN

\* p.y0 of a point: undefined on a point the stacking never wrote to.
y0Of(p) == IF "y0" \in DOMAIN p THEN Num(p.y0) ELSE Undefined

\* number + (number or undefined)
Plus(a, v) == IF v.type = "number" THEN Num(a + v.n) ELSE NaN

RECURSIVE concat(_)
concat(seqs) == IF seqs = << >> THEN << >> ELSE Head(seqs) \o concat(Tail(seqs))

\* _flattenStack(), d being what this.data() returned or threw
_flattenStack(d) ==
    IF d.threw THEN d
    ELSE Return(Array(concat([i \in 1..Len(d.value.items) |->
                                d.value.items[i].domainValues])))

yAxisMin(d, grid) ==
    LET flat == _flattenStack(d)
    IN IF flat.threw THEN flat
       ELSE LET m == d3min([i \in 1..Len(flat.value.items) |->
                        LET p == flat.value.items[i]
                        IN IF p.y < 0 THEN Plus(p.y, y0Of(p)) ELSE y0Of(p)])
            IN Return(subtract(m, grid.yAxisPadding))

yAxisMax(d, grid) ==
    LET flat == _flattenStack(d)
    IN IF flat.threw THEN flat
       ELSE LET m == d3max([i \in 1..Len(flat.value.items) |->
                        LET p == flat.value.items[i]
                        IN IF p.y > 0 THEN Plus(p.y, y0Of(p)) ELSE y0Of(p)])
            IN Return(add(m, grid.yAxisPadding))

xAxisMin(d, grid) ==
    LET flat == _flattenStack(d)
    IN IF flat.threw THEN flat
       ELSE LET m == d3min([i \in 1..Len(flat.value.items) |-> Num(flat.value.items[i].x)])
            IN Return(subtract(m, grid.xAxisPadding))

xAxisMax(d, grid) ==
    LET flat == _flattenStack(d)
    IN IF flat.threw THEN flat
       ELSE LET m == d3max([i \in 1..Len(flat.value.items) |-> Num(flat.value.items[i].x)])
            IN Return(add(m, grid.xAxisPadding))

(***************************************************************************)
(* Legend                                                                  *)
(***************************************************************************)
\* this.getColor(layer, i) with the colorAccessor d => d.name
getColor(layer, i) == [colorOf |-> layer.name]

legendables(stk, hidden) ==
    Array([i \in 1..Len(stk) |->
        [name |-> stk[i].name,
         hidden |-> ~_visibility(hidden, stk[i]),
         color |-> getColor(stk[i], i)]])

\* _findLayerByName(n): the first layer of that name, or undefined
_findLayerByName(stk, n) ==
    IF \E i \in 1..Len(stk) : stk[i].name = n
    THEN stk[CHOOSE i \in 1..Len(stk) :
                /\ stk[i].name = n
                /\ \A k \in 1..Len(stk) : stk[k].name = n => i <= k]
    ELSE Undefined

\* An isLegendableHidden that reads the hidden map without looking the
\* layer up.
isLegendableHidden_byMap(stk, hidden, d) ==
    d.name \in DOMAIN hidden /\ hidden[d.name]

\* isLegendableHidden(d)
isLegendableHidden(stk, hidden, d) ==
    LET layer == _findLayerByName(stk, d.name)
    IN IF layer # Undefined THEN ~_visibility(hidden, layer) ELSE FALSE

\* this._hiddenStacks[stackName] = value
SetHidden(hidden, stackName, value) ==
    [k \in DOMAIN hidden \cup {stackName} |->
        IF k = stackName THEN value ELSE hidden[k]]

(***************************************************************************)
(* The chart after construction, and its methods                           *)
(***************************************************************************)
This == [type |-> "chart"]
Call(op, arg) == [op |-> op, arg |-> arg]

Init ==
    /\ _stack = << >>
    /\ _hiddenStacks = << >>
    /\ _hidableStacks = FALSE
    /\ _evadeDomainFilter = FALSE
    /\ lastCall = Call("constructor", Undefined)
    /\ ret = Return(This)
    /\ renderCalls = 0
    /\ hiddenBefore = << >>

\* What every call records about itself.
Called(op, arg, result, renders) ==
    /\ lastCall' = Call(op, arg)
    /\ ret' = result
    /\ renderCalls' = renders
    /\ hiddenBefore' = _hiddenStacks

\* chart.stack(group, name, accessor)
stack(a) ==
    /\ Len(_stack) < MaxStack
    /\ _stack' = Adaptor_stack(_stack, a.group, a.name, a.accessor, 3)
    /\ Called("stack", a, Return(This), 0)
    /\ UNCHANGED << _hiddenStacks, _hidableStacks, _evadeDomainFilter >>

\* A group(g, n) that also forgets which names are hidden.
group_resets(a) ==
    /\ _stack' = Adaptor_stack(clearStack, a.group, a.name, Undefined, 3)
    /\ _hiddenStacks' = << >>
    /\ Called("group", a, Return(This), 0)
    /\ UNCHANGED << _hidableStacks, _evadeDomainFilter >>

\* chart.group(g, n): the registry is cleared and g becomes its only layer.
\* The titles map it also clears and the base mixin's group and group name
\* are not part of the state here.
group(a) ==
    /\ _stack' = Adaptor_stack(clearStack, a.group, a.name, Undefined, 3)
    /\ Called("group", a, Return(This), 0)
    /\ UNCHANGED << _hiddenStacks, _hidableStacks, _evadeDomainFilter >>

\* chart.hidableStacks(hidableStacks)
hidableStacks(b) ==
    /\ _hidableStacks' = b
    /\ Called("hidableStacks", Bool(b), Return(This), 0)
    /\ UNCHANGED << _stack, _hiddenStacks, _evadeDomainFilter >>

\* chart.evadeDomainFilter(evadeDomainFilter)
evadeDomainFilter(b) ==
    /\ _evadeDomainFilter' = b
    /\ Called("evadeDomainFilter", Bool(b), Return(This), 0)
    /\ UNCHANGED << _stack, _hiddenStacks, _hidableStacks >>

\* chart.hideStack(stackName)
hideStack(stackName) ==
    /\ _hiddenStacks' = SetHidden(_hiddenStacks, stackName, TRUE)
    /\ Called("hideStack", Str(stackName), Return(This), 0)
    /\ UNCHANGED << _stack, _hidableStacks, _evadeDomainFilter >>

\* A showStack that writes true.
showStack_hides(stackName) ==
    /\ _hiddenStacks' = SetHidden(_hiddenStacks, stackName, TRUE)
    /\ Called("showStack", Str(stackName), Return(This), 0)
    /\ UNCHANGED << _stack, _hidableStacks, _evadeDomainFilter >>

\* chart.showStack(stackName)
showStack(stackName) ==
    /\ _hiddenStacks' = SetHidden(_hiddenStacks, stackName, FALSE)
    /\ Called("showStack", Str(stackName), Return(This), 0)
    /\ UNCHANGED << _stack, _hidableStacks, _evadeDomainFilter >>

\* chart.legendToggle(d)
legendToggle(d) ==
    /\ IF _hidableStacks
       THEN /\ _hiddenStacks' =
                  IF isLegendableHidden(_stack, _hiddenStacks, d)
                  THEN SetHidden(_hiddenStacks, d.name, FALSE)
                  ELSE SetHidden(_hiddenStacks, d.name, TRUE)
            /\ Called("legendToggle", Str(d.name), Return(Undefined), 1)
       ELSE /\ _hiddenStacks' = _hiddenStacks
            /\ Called("legendToggle", Str(d.name), Return(Undefined), 0)
    /\ UNCHANGED << _stack, _hidableStacks, _evadeDomainFilter >>

\* chart.data()
data(grid) ==
    /\ Called("data", grid,
              StackData(_stack, _hiddenStacks, _evadeDomainFilter, grid), 0)
    /\ UNCHANGED << _stack, _hiddenStacks, _hidableStacks, _evadeDomainFilter >>

\* chart.yAxisMin(), yAxisMax(), xAxisMin(), xAxisMax(): each calls
\* this.data() through _flattenStack().
extent(grid) ==
    \E d \in {StackData(_stack, _hiddenStacks, _evadeDomainFilter, grid)} :
       /\ \/ Called("yAxisMin", grid, yAxisMin(d, grid), 0)
          \/ Called("yAxisMax", grid, yAxisMax(d, grid), 0)
          \/ Called("xAxisMin", grid, xAxisMin(d, grid), 0)
          \/ Called("xAxisMax", grid, xAxisMax(d, grid), 0)
       /\ UNCHANGED << _stack, _hiddenStacks, _hidableStacks, _evadeDomainFilter >>

\* chart.legendables()
legend ==
    /\ Called("legendables", Undefined,
              Return(legendables(_stack, _hiddenStacks)), 0)
    /\ UNCHANGED << _stack, _hiddenStacks, _hidableStacks, _evadeDomainFilter >>

Next ==
    \/ \E a \in StackArgs : stack(a)
    \/ \E a \in GroupArgs : group(a)
    \/ \E b \in BOOLEAN : hidableStacks(b)
    \/ \E b \in BOOLEAN : evadeDomainFilter(b)
    \/ \E n \in StackNames : hideStack(n)
    \/ \E n \in StackNames : showStack(n)
    \/ \E n \in StackNames : legendToggle([name |-> n])
    \/ \E g \in Grids : data(g)
    \/ \E g \in Grids : extent(g)
    \/ legend

Spec == Init /\ [][Next]_vars

(***************************************************************************)
(* Vocabulary of the properties                                            *)
(***************************************************************************)
HiddenIn(h, n) == n \in DOMAIN h /\ h[n]
IsHidden(n) == HiddenIn(_hiddenStacks, n)
\* The visibility a map stands for: the names isHidden answers true for.
HiddenNames(h) == {n \in DOMAIN h : h[n]}
\* The registry without the layers whose name is hidden.
VisibleStack == SelectSeq(_stack, LAMBDA l : ~IsHidden(l.name))
NamesOf(layers) == [i \in 1..Len(layers) |-> layers[i].name]
ExtentOps == {"yAxisMin", "yAxisMax", "xAxisMin", "xAxisMax"}
DataReturned == lastCall.op = "data" /\ ~ret.threw
\* The visible layers with their point lists, before any stacking.
Prepared(grid) ==
    LET visible == Adaptor_data(VisibleStack)
    IN [i \in 1..Len(visible) |->
          _prepareValues(visible[i], grid, _evadeDomainFilter)]
\* Sum of y at key index k over the first i layers that have such a point.
RECURSIVE SumY(_, _, _)
SumY(layers, i, k) ==
    IF i = 0 THEN 0
    ELSE SumY(layers, i - 1, k)
         + (IF k <= Len(layers[i].values) THEN layers[i].values[k].y ELSE 0)
\* A point without the fields the stacking adds.
Unstacked(p) == [x |-> p.x, y |-> p.y, data |-> p.data, name |-> p.name]

(***************************************************************************)
(* C1: after a composition pass, every point of every visible layer has    *)
(* y0 = the sum of y over the visible layers before it at the same key     *)
(* index, and y1 = y0 + y; the first visible layer has y0 = 0.             *)
(***************************************************************************)
C1_CumulativeBaseline ==
    DataReturned =>
        /\ NamesOf(ret.value.items) = NamesOf(VisibleStack)
        /\ \A i \in 1..Len(ret.value.items) : \A k \in 1..Len(ret.value.items[i].values) :
              LET p == ret.value.items[i].values[k]
              IN /\ "y0" \in DOMAIN p
                 /\ p.y0 = SumY(ret.value.items, i - 1, k)
                 /\ p.y1 = p.y0 + p.y

(***************************************************************************)
(* C2: a layer whose name is hidden is absent from the composition result  *)
(* and the result is the one the visible layers alone give, while          *)
(* legendables() lists every registry layer, in registry order, with       *)
(* hidden = true exactly for the hidden names.                             *)
(***************************************************************************)
C2_HiddenExcludedButListed ==
    /\ lastCall.op = "data" =>
          /\ ret = StackData(VisibleStack, << >>, _evadeDomainFilter, lastCall.arg)
          /\ ~ret.threw =>
                /\ NamesOf(ret.value.items) = NamesOf(VisibleStack)
                /\ \A i \in 1..Len(ret.value.items) : ~IsHidden(ret.value.items[i].name)
    /\ lastCall.op = "legendables" =>
          /\ Len(ret.value.items) = Len(_stack)
          /\ \A i \in 1..Len(_stack) :
                /\ ret.value.items[i].name = _stack[i].name
                /\ ret.value.items[i].hidden = IsHidden(_stack[i].name)

C2_Witness ==
    /\ DataReturned
    /\ Len(ret.value.items) >= 1
    /\ \E i \in 1..Len(_stack) : IsHidden(_stack[i].name)

(***************************************************************************)
(* C3: when two visible layers have point lists of different lengths, the  *)
(* composition pass ends in a stack-alignment error and returns nothing.   *)
(***************************************************************************)
Misaligned(grid) ==
    \E i, j \in 1..Len(Prepared(grid)) :
        Len(Prepared(grid)[i].values) # Len(Prepared(grid)[j].values)

C3_MisalignmentRejected ==
    (lastCall.op = "data" /\ Misaligned(lastCall.arg)) =>
        (ret.threw /\ ret.error = "StackAlignmentError")

(***************************************************************************)
(* C4: no two layers of the registry have the same name.                   *)
(***************************************************************************)
C4_UniqueNames ==
    \A i, j \in 1..Len(_stack) : i # j => _stack[i].name # _stack[j].name

(***************************************************************************)
(* C5: hide(n); hide(n) leaves the visibility one hide(n) leaves, and      *)
(* hide(n); show(n) restores the visibility from before the hide(n).       *)
(***************************************************************************)
HideThen(op) ==
    /\ lastCall.op = "hideStack"
    /\ lastCall'.op = op
    /\ lastCall'.arg = lastCall.arg

HideHideIsHide ==
    HideThen("hideStack") => HiddenNames(_hiddenStacks') = HiddenNames(_hiddenStacks)

C5_HideShowRestores ==
    [][/\ HideHideIsHide
       /\ HideThen("showStack") =>
             HiddenNames(_hiddenStacks') = HiddenNames(hiddenBefore)]_vars

\* C5 as amended: hide(n); hide(n) leaves the visibility one hide(n) leaves;
\* hide(n); show(n) leaves n visible and every other name as it was before
\* the hide(n), which is the visibility from before the hide(n) only when n
\* was visible then.
C5_HideShowLeavesVisible ==
    [][/\ HideHideIsHide
       /\ HideThen("showStack") =>
             HiddenNames(_hiddenStacks') = HiddenNames(hiddenBefore) \ {lastCall.arg.s}]_vars

\* show(n) has acted on a state a hide(n) leaves.
C5_Witness ==
    /\ lastCall.op = "showStack"
    /\ HiddenIn(hiddenBefore, lastCall.arg.s)
    /\ ~IsHidden(lastCall.arg.s)
    /\ HiddenNames(_hiddenStacks) # {}

(***************************************************************************)
(* C6: legendToggle in hidable-stacks mode flips the hidden state of the   *)
(* name, whether or not a layer has it, and calls the render trigger once; *)
(* with the mode off it changes nothing and does not render.               *)
(***************************************************************************)
OthersUnchanged(n) ==
    HiddenNames(_hiddenStacks) \ {n} = HiddenNames(hiddenBefore) \ {n}

ToggleDisabled ==
    (lastCall.op = "legendToggle" /\ ~_hidableStacks) =>
        (_hiddenStacks = hiddenBefore /\ renderCalls = 0)

C6_ToggleFlips ==
    /\ (lastCall.op = "legendToggle" /\ _hidableStacks) =>
          /\ IsHidden(lastCall.arg.s) = ~HiddenIn(hiddenBefore, lastCall.arg.s)
          /\ OthersUnchanged(lastCall.arg.s)
          /\ renderCalls = 1
    /\ ToggleDisabled

\* C6 as amended: in hidable-stacks mode legendToggle flips the hidden state
\* of a name some registry layer has, leaves a name no layer has hidden
\* (whatever it was), and calls the render trigger once; with the mode off
\* it changes nothing and does not render.
Registered(n) == \E i \in 1..Len(_stack) : _stack[i].name = n

C6_ToggleFlipsRegistered ==
    /\ (lastCall.op = "legendToggle" /\ _hidableStacks) =>
          /\ IsHidden(lastCall.arg.s) =
                (Registered(lastCall.arg.s) => ~HiddenIn(hiddenBefore, lastCall.arg.s))
          /\ OthersUnchanged(lastCall.arg.s)
          /\ renderCalls = 1
    /\ ToggleDisabled

C6_Witness ==
    /\ lastCall.op = "legendToggle"
    /\ _hidableStacks
    /\ renderCalls = 1
    /\ ~Registered(lastCall.arg.s)
    /\ HiddenIn(hiddenBefore, lastCall.arg.s)
    /\ IsHidden(lastCall.arg.s)

(***************************************************************************)
(* C7: for every visible layer after a composition pass, domainValues is   *)
(* the layer's points inside the domain window (a fixed numeric domain     *)
(* keeps domainMin <= x <= domainMax; an ordinal or elastic domain, or no  *)
(* x scale, keeps every point), in source order, whatever the evade flag;  *)
(* values is the full point list with the flag set and domainValues        *)
(* without it.                                                             *)
(***************************************************************************)
FixedNumeric(grid) == grid.x # Undefined /\ ~grid.isOrdinal /\ ~grid.elasticX

InWindow(grid, p) ==
    FixedNumeric(grid) =>
        (grid.x.domain[1] <= p.x /\ p.x <= grid.x.domain[Len(grid.x.domain)])

\* The points of a registry layer, one per row of its group, in row order.
PointsOf(layer) ==
    LET rows == all(layer.group)
    IN [k \in 1..Len(rows) |->
          [x |-> rows[k].key,
           y |-> IF layer.accessor = Undefined THEN rows[k].value
                 ELSE Apply(layer.accessor.f, rows[k], k),
           data |-> rows[k],
           name |-> layer.name]]

UnstackedSeq(points) == [k \in 1..Len(points) |-> Unstacked(points[k])]

C7_DomainValuesAndValues ==
    DataReturned =>
        /\ Len(ret.value.items) = Len(VisibleStack)
        /\ \A i \in 1..Len(ret.value.items) :
              LET inside == SelectSeq(PointsOf(VisibleStack[i]),
                                      LAMBDA p : InWindow(lastCall.arg, p))
              IN /\ UnstackedSeq(ret.value.items[i].domainValues) = inside
                 /\ UnstackedSeq(ret.value.items[i].values) =
                       IF _evadeDomainFilter THEN PointsOf(VisibleStack[i])
                       ELSE inside

\* A pass with the evade flag set that kept a point outside a fixed domain.
C7_Witness ==
    /\ DataReturned
    /\ _evadeDomainFilter
    /\ FixedNumeric(lastCall.arg)
    /\ \E i \in 1..Len(ret.value.items) :
          Len(ret.value.items[i].domainValues) < Len(ret.value.items[i].values)

(***************************************************************************)
(* C8: for a non-empty composition, yAxisMin is the minimum over the       *)
(* domainValues points of the visible layers of (y < 0 ? y + y0 : y0)      *)
(* minus the y padding, and yAxisMax the maximum of (y > 0 ? y + y0 : y0)  *)
(* plus the padding, y0 being the stacked baseline of the point.           *)
(***************************************************************************)
\* The edges of the domainValues points: each point of a visible layer that
\* is inside the window, with the baseline of its key index.
Edges(grid, upper) ==
    LET layers == Prepared(grid)
        edge(i, k) ==
            LET p == layers[i].values[k]
                y0 == SumY(layers, i - 1, k)
            IN IF (upper /\ p.y > 0) \/ (~upper /\ p.y < 0) THEN p.y + y0 ELSE y0
    IN UNION { { edge(i, k) : k \in { j \in 1..Len(layers[i].values) :
                                        InWindow(grid, layers[i].values[j]) } } :
               i \in 1..Len(layers) }

C8_YExtents ==
    /\ (lastCall.op = "yAxisMin" /\ Edges(lastCall.arg, FALSE) # {}) =>
          /\ ~ret.threw
          /\ ret.value.type = "number"
          /\ ret.value.n + lastCall.arg.yAxisPadding \in Edges(lastCall.arg, FALSE)
          /\ \A e \in Edges(lastCall.arg, FALSE) :
                ret.value.n + lastCall.arg.yAxisPadding <= e
    /\ (lastCall.op = "yAxisMax" /\ Edges(lastCall.arg, TRUE) # {}) =>
          /\ ~ret.threw
          /\ ret.value.type = "number"
          /\ ret.value.n - lastCall.arg.yAxisPadding \in Edges(lastCall.arg, TRUE)
          /\ \A e \in Edges(lastCall.arg, TRUE) :
                ret.value.n - lastCall.arg.yAxisPadding >= e

(***************************************************************************)
(* C9: with no layer in the registry, or every layer hidden, composition   *)
(* returns an empty snapshot without an error and each of yAxisMin,        *)
(* yAxisMax, xAxisMin and xAxisMax returns undefined or NaN, not a number. *)
(***************************************************************************)
NothingVisible == \A i \in 1..Len(_stack) : IsHidden(_stack[i].name)

C9_EmptyStack ==
    NothingVisible =>
        /\ lastCall.op = "data" => ret = Return(Array(<< >>))
        /\ lastCall.op \in ExtentOps =>
              (~ret.threw /\ ret.value.type \in {"undefined", "NaN"})

\* An extent asked of a registry whose layers are all hidden.
C9_Witness ==
    /\ lastCall.op \in ExtentOps
    /\ Len(_stack) > 0
    /\ NothingVisible
    /\ ~ret.threw

(***************************************************************************)
(* C10: the hidden flag of a name changes only through hideStack,          *)
(* showStack, or legendToggle in hidable-stacks mode; stack, group (which  *)
(* clears the registry), composition, the extents and legendables leave    *)
(* the hidden map as it is, so a layer attached under a hidden name stays  *)
(* out of the composition.                                                 *)
(***************************************************************************)
C10_HiddenFrame ==
    /\ [][_hiddenStacks' # _hiddenStacks =>
             \/ lastCall'.op \in {"hideStack", "showStack"}
             \/ (lastCall'.op = "legendToggle" /\ _hidableStacks)]_vars
    /\ [](DataReturned =>
             \A i \in 1..Len(_stack) :
                IsHidden(_stack[i].name) =>
                   \A j \in 1..Len(ret.value.items) : ret.value.items[j].name # _stack[i].name)

\* The group was replaced by one whose name was hidden before, and still is.
C10_Witness ==
    /\ lastCall.op = "group"
    /\ Len(_stack) = 1
    /\ HiddenIn(hiddenBefore, _stack[1].name)
    /\ IsHidden(_stack[1].name)

====
